---------------------------- MODULE Spec2Model ----------------------------
(***************************************************************************)
(* routes-express: the adapter that binds an endpoint build of             *)
(* "@panth977/routes" to an express request/response pair.                 *)
(*                                                                         *)
(* The source holds the adapter in four shapes, all modelled here and      *)
(* selected per request by `variant`:                                      *)
(*   "ctx" : ExpressHttpContext / ExpressSseContext driven by              *)
(*           R.HttpExecutor / R.SseExecutor        (src/mod.ts 57-280)     *)
(*   "lc"  : createLifeCycle + defaultBuildHandler (src/mod.ts 346-500)    *)
(*   "elc" : createExpressLifeCycle + buildHandler (part_000 57-206)       *)
(*   "bh"  : buildHandler with a closure `closed`  (part_000 335-426,      *)
(*           part_001 81-184)                                              *)
(*                                                                         *)
(* The response object is modelled by the ordered log `res` of the calls   *)
(* made on it.  The engine that sequences the stages (ROUTES.execute, the  *)
(* executors) is imported by the source; its sequencing follows the        *)
(* lifecycle description of the specification (section 4.3).               *)
(*                                                                         *)
(* Besides the request (Spec), the module holds the path translator        *)
(* pathParser (SpecTranslate), route registration by the four serve        *)
(* functions (SpecServe), the life of the request context across the       *)
(* 'finish' and 'close' events of the response (SpecLife), the arguments   *)
(* of defaultBuildHandler and serve (SpecHandler), and two requests in     *)
(* flight together (SpecPair).                                             *)
(***************************************************************************)
EXTENDS Naturals, Sequences, FiniteSets, TLC

VARIABLES
    variant,      \* which shape of the adapter serves the request
    kind,         \* build.endpoint of the route build: "http" | "sse"
    nMw,          \* number of middleware stages of the build
    phase,        \* "idle" | "init" | "stage" | "done"
    stage,        \* index of the stage in flight; nMw is the handler
    ran,          \* stages whose body was started, in order
    closeEmitted, \* the transport has emitted 'close' for the response
    res,          \* the calls made on the express Response, in order
    closed,       \* the cancellation flag
    listening,    \* a 'close' listener is registered on the response
    exposed,      \* ExpressHttpContext.exposedHeaders
    threw,        \* an exception left an adapter callback
    errs,         \* results of the onError invocations, in order
    produced,     \* items the stream handler has produced, in order
    outcome,      \* how the stages ended: "none"|"mwfail"|"ok"|"fail"
    hOut          \* the handler's success output (single-response)

vars == <<variant, kind, nMw, phase, stage, ran, closeEmitted, res, closed,
          listening, exposed, threw, errs, produced, outcome, hOut>>

\* pathParser: one translation of a path template.
VARIABLES
    path,         \* the template handed to pathParser, as characters
    schema,       \* the reqPath schema handed along with it
    parser,       \* which pathParser ran: "none" | "schema" | "plain"
    pattern,      \* what the call returned
    again         \* what a second call with the same arguments returned

tvars == <<path, schema, parser, pattern, again>>

\* serve: one registration of a bundle, and requests routed by the result.
VARIABLES
    serveVariant, \* which serve is called
    bundle,       \* Object.values(bundle): the builds, in bundle order
    args,         \* which optional arguments of serve are given
    router,       \* the routes registered on the Router, in order
    serveState,   \* "none" | "returned" | "threw"
    thrown,       \* the message of the error serve threw
    started       \* the route whose handler the last request entered

svars == <<serveVariant, bundle, args, router, serveState, thrown, started>>

\* The life of a request's context beyond one lifecycle run.
VARIABLES
    reused,        \* a second handler ran for the request (req.context set)
    finishEmitted, \* the response has emitted 'finish'
    onFinish,      \* number of 'finish' listeners registered
    disposed,      \* number of calls of context.dispose / done
    lateUse        \* a callback used the context after it was disposed

lvars == <<reused, finishEmitted, onFinish, disposed, lateUse>>

\* defaultBuildHandler: one call, and the requests its handler serves.
VARIABLES
    handlerArgs,   \* which of lc and onError the call was given
    handler,       \* what the call did, and the lifecycle its handler holds
    executed       \* the lifecycle the last handled request was run with

hvars == <<handlerArgs, handler, executed>>

\* Two requests in flight: the variables of the request above are those of
\* the request whose callback is running.
VARIABLES
    cur,           \* the request whose callback is running: 1 or 2
    other          \* the state of the request that is suspended

pvars == <<cur, other>>

allvars == <<vars, tvars, svars, lvars, hvars, pvars>>

---------------------------------------------------------------------------
(* Bounds of the model *)

MaxMw == 2
MaxItems == 2

---------------------------------------------------------------------------
(* Values *)

Variants == {"ctx", "lc", "elc", "bh"}
Kinds == {"http", "sse"}

\* A body that is absent: null, or undefined / no "body" member.
Null == "<null>"
Undefined == "<undefined>"
Bodies == {Null, Undefined, "hello", "{a:1}"}
Items == {"a", "b"}

Hdr(k, v) == [k |-> k, v |-> v]

\* String.prototype.toLowerCase on the header names and values in use.
ToLowerCase(s) ==
    CASE s = "Content-Type" -> "content-type"
      [] s = "Application/JSON" -> "application/json"
      [] s = "X-Trace" -> "x-trace"
      [] OTHER -> s

\* Header objects a middleware may return (insertion-ordered key/value).
MwHeaderSets ==
    { <<>>,
      <<Hdr("X-Trace", "1")>>,
      <<Hdr("content-type", "text/plain")>> }

\* Header objects a handler may return.
HandlerHeaderSets ==
    { <<>>,
      <<Hdr("x-a", "1")>>,
      <<Hdr("content-type", "application/json")>>,
      <<Hdr("Content-Type", "text/plain")>>,
      <<Hdr("x-a", "1"), Hdr("Content-Type", "Application/JSON")>>,
      <<Hdr("x-a", "1"), Hdr("content-type", "text/csv")>> }

\* What the user's onError does when it is invoked: raise, or return a
\* representation {status, headers, body}.
Norms ==
    { [raised |-> TRUE,  status |-> 0,   headers |-> <<>>, body |-> ""],
      [raised |-> FALSE, status |-> 400, headers |-> <<>>, body |-> "bad"],
      [raised |-> FALSE, status |-> 503,
       headers |-> <<Hdr("retry-after", "1")>>, body |-> "busy"] }

\* Calls on the express Response.
Ev(op, k, v, n) == [op |-> op, k |-> k, v |-> v, n |-> n]
SetHeader(k, v) == Ev("setHeader", k, v, 0)
FlushHeaders == Ev("flushHeaders", "", "", 0)
Status(n) == Ev("status", "", "", n)
Json(b) == Ev("json", "", b, 0)
Send(b) == Ev("send", "", b, 0)
Write(d) == Ev("write", "", d, 0)
End == Ev("end", "", "", 0)

\* Stands for the error handling of a call that delivers no error.
NoError == [raised |-> FALSE, status |-> 0, headers |-> <<>>, body |-> ""]

\* Outputs handed to onResponse: null, a string (one stream item), or an
\* object with headers and possibly a body.
NullOutput == [t |-> "null", s |-> "", headers |-> <<>>, body |-> Undefined]
StringOutput(s) == [t |-> "string", s |-> s, headers |-> <<>>, body |-> Undefined]
ObjectOutput(h, b) == [t |-> "object", s |-> "", headers |-> h, body |-> b]


---------------------------------------------------------------------------
(* The adapter's state, as one record the callbacks transform.  Callbacks  *)
(* run to completion (single-threaded), so an engine step applies several  *)
(* of them in sequence to this record.                                     *)

Adapter ==
    [res |-> res, closed |-> closed, listening |-> listening,
     exposed |-> exposed, threw |-> threw, errs |-> errs]

Put(a) ==
    /\ res' = a.res
    /\ closed' = a.closed
    /\ listening' = a.listening
    /\ exposed' = a.exposed
    /\ threw' = a.threw
    /\ errs' = a.errs

Call(a, evs) == [a EXCEPT !.res = @ \o evs]

\* for (const key in headers) res.setHeader(key, headers[key])
SetHeaders(h) == [i \in 1..Len(h) |-> SetHeader(h[i].k, h[i].v)]

\* The streaming preamble.
Preamble ==
    << SetHeader("Cache-Control", "no-cache"),
       SetHeader("Content-Type", "text/event-stream"),
       SetHeader("Access-Control-Allow-Origin", "*"),
       SetHeader("Connection", "keep-alive"),
       FlushHeaders >>

\* JSON.stringify of a string without characters that need escaping.
JSONstringify(s) == "\"" \o s \o "\""

\* Mutant: the frame is closed by a single line break.
FrameUnterminated(d) == Write("data: " \o d \o "\n")

Frame(d) == Write("data: " \o d \o "\n\n")

---------------------------------------------------------------------------
(* Lifecycle callbacks: createLifeCycle, createExpressLifeCycle and the    *)
(* inline lifecycle of buildHandler                                        *)

\* init: context.useState(ClosedStateKey).set(false)
LcInit(a) == [a EXCEPT !.closed = FALSE]

OnStatusChange(a, status) ==
    IF a.closed THEN a
    ELSE IF status = "start" THEN [a EXCEPT !.listening = TRUE]
    ELSE a

\* Mutant: the preamble is written for every build, not only for "sse".
OnExecutionAnyEndpoint(a, endpoint) ==
    IF a.closed THEN a ELSE Call(a, Preamble)

OnExecution(a, endpoint) ==
    IF a.closed THEN a
    ELSE IF endpoint = "sse" THEN Call(a, Preamble)
    ELSE a

\* Mutant: the key is compared without lower-casing it.
RECURSIVE FindContentTypeKeyExact(_, _)
FindContentTypeKeyExact(h, i) ==
    IF i > Len(h) THEN ""
    ELSE IF h[i].k = "content-type" THEN h[i].k
    ELSE FindContentTypeKeyExact(h, i + 1)

\* Object.keys(output.headers ?? {}).find(x => x.toLowerCase() === "content-type")
RECURSIVE FindContentTypeKey(_, _)
FindContentTypeKey(h, i) ==
    IF i > Len(h) THEN ""
    ELSE IF ToLowerCase(h[i].k) = "content-type" THEN h[i].k
    ELSE FindContentTypeKey(h, i + 1)

\* headers[key] ?? "application/json"
Lookup(h, key) ==
    IF \E i \in 1..Len(h) : h[i].k = key
    THEN LET i == CHOOSE j \in 1..Len(h) : h[j].k = key IN h[i].v
    ELSE "application/json"

ContentTypeVal(h) == Lookup(h, FindContentTypeKey(h, 1))

BodyPresent(b) == b # Null /\ b # Undefined

\* Mutant: a failure of a stream build is answered like any other.
OnResponseSseStatus(a, endpoint, output, n) ==
    IF a.closed THEN a
    ELSE IF output.t = "null" THEN
        Call([a EXCEPT !.errs = Append(@, n)],
             SetHeaders(n.headers) \o <<Status(n.status), Json(n.body)>>)
    ELSE IF output.t = "string" THEN
        Call(a, <<Frame(JSONstringify(output.s))>>)
    ELSE Call(a, SetHeaders(output.headers))

\* n is what the user's onError does if this call invokes it.
OnResponse(a, endpoint, output, n) ==
    IF a.closed THEN a
    ELSE IF output.t = "null" THEN
        LET a1 == [a EXCEPT !.errs = Append(@, n)] IN
        IF n.raised THEN [a1 EXCEPT !.threw = TRUE]
        ELSE IF endpoint = "sse" THEN a1
        ELSE Call(a1, SetHeaders(n.headers) \o <<Status(n.status), Json(n.body)>>)
    ELSE IF output.t = "string" THEN
        Call(a, <<Frame(JSONstringify(output.s))>>)
    ELSE
        LET a1 == Call(a, SetHeaders(output.headers)) IN
        IF BodyPresent(output.body) THEN
            Call(a1, << Status(200),
                        IF ToLowerCase(ContentTypeVal(output.headers)) # "application/json"
                        THEN Send(output.body)
                        ELSE Json(output.body) >>)
        ELSE a1

OnComplete(a, endpoint) ==
    IF a.closed THEN a
    ELSE IF endpoint = "sse" THEN Call(a, <<End>>)
    ELSE a

---------------------------------------------------------------------------
(* Context operations: ExpressHttpContext and ExpressSseContext            *)

RECURSIVE JoinFrom(_, _)
JoinFrom(names, i) ==
    IF i > Len(names) THEN ""
    ELSE IF i = Len(names) THEN names[i]
    ELSE names[i] \o ", " \o JoinFrom(names, i + 1)

\* exposedHeaders.join(", ")
Join(names) == JoinFrom(names, 1)

HttpSetResHeaders(a, h) ==
    [a EXCEPT !.res = @ \o SetHeaders(h),
              !.exposed = @ \o [i \in 1..Len(h) |-> h[i].k]]

EndWithData(a, contentType, content) ==
    Call(a,
         <<SetHeader("Access-Control-Allow-Origin", "*")>>
         \o (IF Len(a.exposed) > 0
             THEN <<SetHeader("Access-Control-Expose-Headers", Join(a.exposed))>>
             ELSE <<>>)
         \o << Status(200),
               IF contentType = "application/json" THEN Json(content)
               ELSE Send(content),
               End >>)

HttpEndedWithError(a, n) ==
    LET a1 == [a EXCEPT !.errs = Append(@, n)] IN
    IF n.raised
    THEN Call(a1, <<Status(500), Json("Unknown Server Error!")>>)
    ELSE Call(HttpSetResHeaders(a1, n.headers), <<Status(n.status), Json(n.body)>>)

SseConstructor(a) == Call(a, Preamble)

SseSend(a, data) == Call(a, <<Frame(data)>>)

SseEndedWithError(a, n) ==
    LET a1 == [a EXCEPT !.errs = Append(@, n)] IN
    IF n.raised THEN [a1 EXCEPT !.threw = TRUE]
    ELSE Call(a1, <<Frame(n.body), End>>)

SseEndedWithSuccess(a) == Call(a, <<End>>)

\* executor.cancel, bound to the response's 'close' event.
ExecutorCancel(a) == [a EXCEPT !.closed = TRUE]

---------------------------------------------------------------------------
(* pathParser: a template is a string, modelled by its characters.  The    *)
(* schema is the reqPath of the build: a zod object whose shape names the  *)
(* declared type of each path parameter, or undefined.                     *)

MaxFrags == 4

\* Declared types.  A ZodEnum carries `enum`, the object of its entries:
\* z.enum(["u", "v"]) has the entries {u: "u", v: "v"}, and an enum made
\* from an enum-like object has that object's entries.
ZodEnum(entries) == [t |-> "ZodEnum", int |-> FALSE, enum |-> entries]
ZodNumber(int) == [t |-> "ZodNumber", int |-> int, enum |-> <<>>]
ZodString == [t |-> "ZodString", int |-> FALSE, enum |-> <<>>]
\* schema.shape[x] of a name the shape does not hold.
NoType == [t |-> "undefined", int |-> FALSE, enum |-> <<>>]

Entry(k, v) == [k |-> k, v |-> v]

TypesOfX ==
    { NoType,
      ZodEnum(<<Entry("u", "u"), Entry("v", "v")>>),
      ZodEnum(<<Entry("2", "2"), Entry("1", "1")>>),
      ZodEnum(<<Entry("U", "u")>>),
      ZodNumber(TRUE),
      ZodNumber(FALSE),
      ZodString }

TypesOfY == {NoType, ZodNumber(TRUE)}

Field(name, type) ==
    IF type = NoType THEN <<>> ELSE <<[name |-> name, type |-> type]>>

\* reqPath: undefined, or a ZodObject with a shape.
NoSchema == [object |-> FALSE, shape |-> <<>>]
ZodObject(shape) == [object |-> TRUE, shape |-> shape]

Schemas ==
    {NoSchema} \cup
    { ZodObject(Field(<<"x">>, tx) \o Field(<<"y">>, ty)) :
        tx \in TypesOfX, ty \in TypesOfY }

\* The pieces templates are put together from.
Frags ==
    { <<"/">>, <<"{">>, <<"}">>, <<"{", "x", "}">>, <<"{", "y", "}">> }

FragSeqs == UNION {[1..n -> Frags] : n \in 0..MaxFrags}

RECURSIVE Flatten(_)
Flatten(ss) == IF ss = <<>> THEN <<>> ELSE Head(ss) \o Flatten(Tail(ss))

Templates == {Flatten(fs) : fs \in FragSeqs}

\* schema.shape[x]
ShapeAt(sch, x) ==
    IF \E i \in 1..Len(sch.shape) : sch.shape[i].name = x
    THEN LET i == CHOOSE j \in 1..Len(sch.shape) : sch.shape[j].name = x
         IN sch.shape[i].type
    ELSE NoType

Digits == <<"0", "1", "2", "3", "4", "5", "6", "7", "8", "9">>

\* Object.keys: the integer-like keys in ascending order, then the other
\* keys in insertion order (keys of one character).
ObjectKeys(entries) ==
    LET ks == [i \in 1..Len(entries) |-> entries[i].k] IN
    SelectSeq(Digits, LAMBDA d : \E i \in 1..Len(ks) : ks[i] = d)
    \o SelectSeq(ks, LAMBDA k : \A i \in 1..Len(Digits) : Digits[i] # k)

\* keys.join("|")
RECURSIVE JoinBar(_)
JoinBar(ks) ==
    IF ks = <<>> THEN <<>>
    ELSE IF Len(ks) = 1 THEN <<ks[1]>>
    ELSE <<ks[1], "|">> \o JoinBar(Tail(ks))

\* The first "}" at or after position j, or 0.
RECURSIVE FirstClose(_, _)
FirstClose(p, j) ==
    IF j > Len(p) THEN 0
    ELSE IF p[j] = "}" THEN j
    ELSE FirstClose(p, j + 1)

\* Mutant: a placeholder may have an empty name.
MatchEndEmptyName(p, i) ==
    IF p[i] # "{" THEN 0 ELSE FirstClose(p, i + 1)

\* /{([^}]+)}/ tried at position i: where the match ends, or 0 when there
\* is none ("{", one or more characters other than "}", then "}").
MatchEnd(p, i) ==
    IF p[i] # "{" THEN 0
    ELSE LET j == FirstClose(p, i + 1) IN IF j > i + 1 THEN j ELSE 0

\* `:${x}` and ":$1"
Capture(x) == <<":">> \o x

\* `:${x}(${Object.keys(s.enum).join("|")})`
EnumCapture(x, s) ==
    Capture(x) \o <<"(">> \o JoinBar(ObjectKeys(s.enum)) \o <<")">>

\* `:${x}(\\d+)`
NumberCapture(x) == Capture(x) \o <<"(", "\\", "d", "+", ")">>

\* The replacer of the schema-aware pathParser.
Replacer(sch, x) ==
    LET s == ShapeAt(sch, x) IN
    IF s.t = "ZodEnum" THEN EnumCapture(x, s)
    ELSE IF s.t = "ZodNumber" THEN NumberCapture(x)
    ELSE Capture(x)

\* path.replace(/{([^}]+)}/g, ...): matches are taken left to right and do
\* not overlap; the text between them is kept.
RECURSIVE ReplaceFrom(_, _, _)
ReplaceFrom(p, i, sch) ==
    IF i > Len(p) THEN <<>>
    ELSE LET j == MatchEnd(p, i) IN
         IF j = 0 THEN <<p[i]>> \o ReplaceFrom(p, i + 1, sch)
         ELSE LET x == SubSeq(p, i + 1, j - 1) IN
              (IF sch.object THEN Replacer(sch, x) ELSE Capture(x))
              \o ReplaceFrom(p, j + 1, sch)

\* pathParser(path, schema) of the context-class variant.
PathParser(p, sch) == ReplaceFrom(p, 1, sch)

\* pathParser(path) of the other variants.
PathParserPlain(p) == ReplaceFrom(p, 1, NoSchema)

NoTranslation ==
    /\ path = <<>> /\ schema = NoSchema /\ parser = "none"
    /\ pattern = <<>> /\ again = <<>>

TInit ==
    /\ path \in Templates
    /\ schema \in Schemas
    /\ parser = "none" /\ pattern = <<>> /\ again = <<>>

\* A first call of the schema-aware pathParser.
Translate ==
    /\ parser = "none"
    /\ parser' = "schema"
    /\ pattern' = PathParser(path, schema)
    /\ UNCHANGED <<path, schema, again>>

\* A first call of the one-argument pathParser.
TranslatePlain ==
    /\ parser = "none" /\ schema = NoSchema
    /\ parser' = "plain"
    /\ pattern' = PathParserPlain(path)
    /\ UNCHANGED <<path, schema, again>>

\* The same call once more.
TranslateAgain ==
    /\ parser \in {"schema", "plain"}
    /\ parser' = parser \o "-twice"
    /\ again' = (IF parser = "schema" THEN PathParser(path, schema)
                 ELSE PathParserPlain(path))
    /\ UNCHANGED <<path, schema, pattern>>

---------------------------------------------------------------------------
(* serve: the routes of a bundle are registered on a Router.  A build is   *)
(* known by its position in Object.values(bundle).                         *)

MaxBuilds == 2

ServeVariants == {"ctx", "lc", "elc", "bh"}

\* "other": a build that is neither a FuncHttp nor a FuncSse.
BuildKinds == {"http", "sse", "other"}

DocsOrders == {1, 2}

Root == <<"/">>
ById == <<"/", "{", "x", "}">>

\* paths, methods and reqPath of the builds in use.
BuildShapes ==
    { [path |-> <<Root>>, method |-> <<"get">>, reqPath |-> NoSchema],
      [path |-> <<Root, ById>>, method |-> <<"get", "post">>,
       reqPath |-> ZodObject(Field(<<"x">>, ZodNumber(TRUE)))],
      [path |-> <<ById>>, method |-> <<"post">>, reqPath |-> NoSchema] }

Builds ==
    { [kind |-> k, docsOrder |-> d, path |-> sh.path, method |-> sh.method,
       reqPath |-> sh.reqPath] :
        k \in BuildKinds, d \in DocsOrders, sh \in BuildShapes }

Bundles == UNION {[1..n -> Builds] : n \in 0..MaxBuilds}

\* Which of the optional arguments are given.  The context-class serve
\* takes onHttpError and onSseError, the serve of createLifeCycle takes
\* buildHandler and onError; the other two take one required argument.
Args(h, s, b, e) ==
    [onHttpError |-> h, onSseError |-> s, buildHandler |-> b, onError |-> e]

ArgsOf(v) ==
    CASE v = "ctx" -> {Args(h, s, FALSE, FALSE) : h \in BOOLEAN, s \in BOOLEAN}
      [] v = "lc"  -> {Args(FALSE, FALSE, b, e) : b \in BOOLEAN, e \in BOOLEAN}
      [] v = "elc" -> {Args(FALSE, FALSE, TRUE, FALSE)}
      [] v = "bh"  -> {Args(FALSE, FALSE, FALSE, TRUE)}

Route(m, p, b, entry) == [method |-> m, pattern |-> p, build |-> b, entry |-> entry]

\* for (const path of paths) for (const method of methods)
\*     router[method](pathParser(path, ...), route)
RoutesOf(b, key, entry, withSchema) ==
    [i \in 1..(Len(b.path) * Len(b.method)) |->
        LET pi == ((i - 1) \div Len(b.method)) + 1
            mi == ((i - 1) % Len(b.method)) + 1
        IN Route(b.method[mi],
                 IF withSchema THEN PathParser(b.path[pi], b.reqPath)
                 ELSE PathParserPlain(b.path[pi]),
                 key, entry)]

\* Mutant: the builds are left in bundle order.
SortByBundleOrder(bs) == [i \in 1..Len(bs) |-> i]

\* Object.values(bundle).sort((x, y) => x.node.docsOrder - y.node.docsOrder):
\* the positions of the builds, in ascending docsOrder; builds of equal
\* docsOrder keep their bundle order.
RECURSIVE SortByDocsOrder(_)
SortByDocsOrder(bs) ==
    IF bs = <<>> THEN <<>>
    ELSE LET n == Len(bs)
             before == SortByDocsOrder(SubSeq(bs, 1, n - 1))
             le == SelectSeq(before, LAMBDA k : bs[k].docsOrder <= bs[n].docsOrder)
             gt == SelectSeq(before, LAMBDA k : bs[k].docsOrder > bs[n].docsOrder)
         IN le \o <<n>> \o gt

Registered(routes) == [router |-> routes, thrown |-> ""]
Throw(msg) == [router |-> <<>>, thrown |-> msg]

\* executeHttpRoute.bind(null, genRequestId, build, onHttpError, ...) and
\* executeSseRoute.bind(null, genRequestId, build, onSseError, ...); the
\* handlers of the other serves carry the lifecycle's onError.
BoundCallback(entry) ==
    CASE entry = "executeHttpRoute" -> "onHttpError"
      [] entry = "executeSseRoute" -> "onSseError"
      [] OTHER -> "onError"

\* Mutant: a single-response build is registered without onHttpError.
RECURSIVE CtxRegisterUnchecked(_, _, _, _)
CtxRegisterUnchecked(bs, order, i, a) ==
    IF i > Len(order) THEN Registered(<<>>)
    ELSE LET b == bs[order[i]]
             rest == CtxRegisterUnchecked(bs, order, i + 1, a)
         IN IF b.kind = "http" THEN
                [rest EXCEPT !.router =
                    RoutesOf(b, order[i], "executeHttpRoute", TRUE) \o @]
            ELSE IF b.kind = "sse" THEN
                IF ~a.onSseError
                THEN Throw("Need [onSseError] for the http routes.")
                ELSE [rest EXCEPT !.router =
                        RoutesOf(b, order[i], "executeSseRoute", TRUE) \o @]
            ELSE Throw("Unknown Build type found.")

\* The loop of the context-class serve from the i-th build of `order` on.
RECURSIVE CtxRegister(_, _, _, _)
CtxRegister(bs, order, i, a) ==
    IF i > Len(order) THEN Registered(<<>>)
    ELSE LET b == bs[order[i]]
             rest == CtxRegister(bs, order, i + 1, a)
         IN IF b.kind = "http" THEN
                IF ~a.onHttpError
                THEN Throw("Need [onHttpError] for the http routes.")
                ELSE [rest EXCEPT !.router =
                        RoutesOf(b, order[i], "executeHttpRoute", TRUE) \o @]
            ELSE IF b.kind = "sse" THEN
                IF ~a.onSseError
                THEN Throw("Need [onSseError] for the http routes.")
                ELSE [rest EXCEPT !.router =
                        RoutesOf(b, order[i], "executeSseRoute", TRUE) \o @]
            ELSE Throw("Unknown Build type found.")

\* The loop of the other serves: every build, in bundle order.
RECURSIVE RegisterAll(_, _)
RegisterAll(bs, i) ==
    IF i > Len(bs) THEN <<>>
    ELSE RoutesOf(bs[i], i, "buildHandler", FALSE) \o RegisterAll(bs, i + 1)

CtxServe(bs, a) == CtxRegister(bs, SortByDocsOrder(bs), 1, a)

LcServe(bs, a) ==
    IF a.buildHandler /\ a.onError
    THEN Throw("Pass either of buildHandler or onError function")
    ELSE IF ~a.buildHandler /\ ~a.onError THEN Throw("Unimplemented!")
    ELSE Registered(RegisterAll(bs, 1))

ElcServe(bs) == Registered(RegisterAll(bs, 1))

BhServe(bs) == Registered(RegisterAll(bs, 1))

NoRequest == [method |-> "", url |-> <<>>, route |-> 0]

NoServe ==
    /\ serveVariant = "ctx" /\ bundle = <<>>
    /\ args = Args(FALSE, FALSE, FALSE, FALSE)
    /\ router = <<>> /\ serveState = "none" /\ thrown = ""
    /\ started = NoRequest

SInit ==
    /\ serveVariant \in ServeVariants
    /\ bundle \in Bundles
    /\ args \in ArgsOf(serveVariant)
    /\ router = <<>> /\ serveState = "none" /\ thrown = ""
    /\ started = NoRequest

\* serve(...) is called once.
Serve ==
    /\ serveState = "none"
    /\ LET r == CASE serveVariant = "ctx" -> CtxServe(bundle, args)
                  [] serveVariant = "lc"  -> LcServe(bundle, args)
                  [] serveVariant = "elc" -> ElcServe(bundle)
                  [] serveVariant = "bh"  -> BhServe(bundle)
       IN /\ router' = r.router
          /\ thrown' = r.thrown
          /\ serveState' = (IF r.thrown = "" THEN "returned" ELSE "threw")
    /\ UNCHANGED <<serveVariant, bundle, args, started>>

Methods == {"get", "post"}
Urls == {<<"/">>, <<"/", "5">>, <<"/", "a">>}

\* Whether the Router's matcher accepts the url for a pattern in use: a
\* pattern without capture matches itself, ":x" one segment, and
\* ":x(\d+)" one segment of digits.
Matches(p, url) ==
    \/ p = url
    \/ p = <<"/">> \o Capture(<<"x">>) /\ Len(url) = 2 /\ url[1] = "/"
    \/ p = <<"/">> \o NumberCapture(<<"x">>) /\ Len(url) = 2 /\ url[1] = "/"
       /\ \E i \in 1..Len(Digits) : Digits[i] = url[2]

\* The routes of the router that accept a request.
Accepting(m, url) ==
    {i \in 1..Len(router) : router[i].method = m /\ Matches(router[i].pattern, url)}

\* A request reaches the returned router: the first route that accepts it
\* is entered; the handlers never call next().
Dispatch(m, url) ==
    /\ serveState = "returned"
    /\ started' = [method |-> m, url |-> url,
                   route |-> IF Accepting(m, url) = {} THEN 0
                             ELSE CHOOSE i \in Accepting(m, url) :
                                    \A j \in Accepting(m, url) : i <= j]
    /\ UNCHANGED <<serveVariant, bundle, args, router, serveState, thrown>>

\* No second handler, no 'finish', nothing disposed.
NoLife ==
    /\ reused = FALSE /\ finishEmitted = FALSE /\ onFinish = 0
    /\ disposed = 0 /\ lateUse = FALSE

---------------------------------------------------------------------------
(* defaultBuildHandler, and the lifecycle the handlers of serve run *)

HandlerArgs(l, e) == [lc |-> l, onError |-> e]

Built(lc) == [state |-> "returned", thrown |-> "", lc |-> lc]
Refused(msg) == [state |-> "threw", thrown |-> msg, lc |-> ""]
NotBuilt == [state |-> "none", thrown |-> "", lc |-> ""]

\* Mutant: with both arguments given, onError wins and nothing is thrown.
DefaultBuildHandlerLenient(a) ==
    IF a.onError THEN Built("createLifeCycle(onError)")
    ELSE IF ~a.lc THEN Refused("Unimplemented!")
    ELSE Built("lc")

\* if (lc && onError) throw ...; if (onError) lc = createLifeCycle(onError);
\* if (!lc) throw ...; the returned handler hands lc to ROUTES.execute.
DefaultBuildHandler(a) ==
    IF a.lc /\ a.onError THEN Refused("Pass either of lc or onError function")
    ELSE IF a.onError THEN Built("createLifeCycle(onError)")
    ELSE IF ~a.lc THEN Refused("Unimplemented!")
    ELSE Built("lc")

\* The lifecycle behind the handlers serve registers: with onError,
\* defaultBuildHandler({build, lc}) for lc = createLifeCycle(onError);
\* otherwise whatever the supplied buildHandler returns for the build.
ServeBuildHandler(a) ==
    IF a.onError
    THEN DefaultBuildHandler(HandlerArgs(TRUE, FALSE)).lc \o " = createLifeCycle(onError)"
    ELSE "buildHandler(build)"

NotExecuted == [by |-> "", lc |-> ""]

NoHandler ==
    /\ handlerArgs = HandlerArgs(FALSE, FALSE)
    /\ handler = NotBuilt
    /\ executed = NotExecuted

\* defaultBuildHandler({build, lc, onError}) is called.
CallDefaultBuildHandler(l, e) ==
    /\ handler.state = "none"
    /\ handlerArgs' = HandlerArgs(l, e)
    /\ handler' = DefaultBuildHandler(HandlerArgs(l, e))
    /\ UNCHANGED executed

\* A request enters the handler defaultBuildHandler returned.
HandleByHandler ==
    /\ handler.state = "returned"
    /\ executed' = [by |-> "handler", lc |-> handler.lc]
    /\ UNCHANGED <<handlerArgs, handler>>

\* A request reaches the router serve returned and enters a route.
HandleByRouter(m, url) ==
    /\ Dispatch(m, url)
    /\ executed' = (IF started'.route = 0 THEN NotExecuted
                    ELSE [by |-> "router", lc |-> ServeBuildHandler(args)])
    /\ UNCHANGED <<handlerArgs, handler>>

\* The bundles and arguments the serve of createLifeCycle is called with.
HInit ==
    /\ serveVariant = "lc"
    /\ bundle \in {b \in Bundles : Len(b) <= 1}
    /\ args \in ArgsOf("lc")
    /\ router = <<>> /\ serveState = "none" /\ thrown = ""
    /\ started = NoRequest

\* Only request 1 exists.
NoPeer == cur = 1 /\ other = <<>>

---------------------------------------------------------------------------
(* The engine: ROUTES.execute for the lifecycle variants, R.HttpExecutor   *)
(* and R.SseExecutor for the context variant.  Stages run in declared      *)
(* order, a failing stage ends the run, and the completion callbacks       *)
(* follow every run.                                                       *)

IsCtx == variant = "ctx"

\* build.endpoint of the build a stage belongs to.
EndpointOf(s) == IF s < nMw THEN "middleware" ELSE kind

\* onComplete, then onStatusChange("complete").
Finish(a) == OnStatusChange(OnComplete(a, kind), "complete")

\* After a callback raised, the engine either drops the run or goes on to
\* the completion callbacks.
AfterResponse(a, cont) == IF a.threw /\ ~cont THEN a ELSE Finish(a)

\* The content type the executor passes to endWithData: the handler's
\* content-type header unless it is absent or names the JSON media type.
ExecContentType(h) ==
    IF ToLowerCase(ContentTypeVal(h)) = "application/json"
    THEN "application/json"
    ELSE ContentTypeVal(h)

\* Once cancelled, the executor may or may not still hand a stage's result
\* to the context.
Deliveries == IF closed THEN BOOLEAN ELSE {TRUE}

CtxEndedWithError(a, n) ==
    IF kind = "sse" THEN SseEndedWithError(a, n) ELSE HttpEndedWithError(a, n)

Init ==
    /\ variant = "ctx"
    /\ kind = "http"
    /\ nMw = 0
    /\ phase = "idle"
    /\ stage = 0
    /\ ran = <<>>
    /\ closeEmitted = FALSE
    /\ res = <<>>
    /\ closed = FALSE
    /\ listening = FALSE
    /\ exposed = <<>>
    /\ threw = FALSE
    /\ errs = <<>>
    /\ produced = <<>>
    /\ outcome = "none"
    /\ hOut = ObjectOutput(<<>>, Undefined)

\* executeHttpRoute / executeSseRoute: the context is built, the close
\* listener registered and the executor started.
CtxRequest(k, n) ==
    /\ phase = "idle"
    /\ variant' = "ctx" /\ kind' = k /\ nMw' = n
    /\ Put([(IF k = "sse" THEN SseConstructor(Adapter) ELSE Adapter)
              EXCEPT !.listening = TRUE])
    /\ phase' = "stage" /\ stage' = 0 /\ ran' = <<0>>
    /\ UNCHANGED <<closeEmitted, produced, outcome, hOut>>

\* The request handler of a lifecycle variant is entered: the flag is set
\* to false (init, buildHandler's setState, `let closed = false`).
LcRequest(v, k, n) ==
    /\ phase = "idle"
    /\ variant' = v /\ kind' = k /\ nMw' = n
    /\ Put(LcInit(Adapter))
    /\ phase' = "init"
    /\ UNCHANGED <<stage, ran, closeEmitted, produced, outcome, hOut>>

\* onStatusChange("start"), then the first stage is started.
LcStart ==
    /\ phase = "init"
    /\ Put(OnExecution(OnStatusChange(Adapter, "start"), EndpointOf(0)))
    /\ phase' = "stage" /\ stage' = 0 /\ ran' = <<0>>
    /\ UNCHANGED <<variant, kind, nMw, closeEmitted, produced, outcome, hOut>>

MwSucceeds(h) ==
    /\ phase = "stage" /\ stage < nMw
    /\ \E d \in Deliveries :
         Put(IF IsCtx
             THEN (IF d /\ kind = "http" THEN HttpSetResHeaders(Adapter, h)
                   ELSE Adapter)
             ELSE OnExecution(
                    OnResponse(Adapter, "middleware",
                               ObjectOutput(h, Undefined), NoError),
                    EndpointOf(stage + 1)))
    /\ stage' = stage + 1 /\ ran' = Append(ran, stage + 1)
    /\ UNCHANGED <<variant, kind, nMw, phase, closeEmitted, produced, outcome, hOut>>

\* A stage fails with error handling n of the user's onError.
StageFails(n, tag) ==
    /\ \E d \in Deliveries, cont \in BOOLEAN :
         Put(IF IsCtx
             THEN (IF d THEN CtxEndedWithError(Adapter, n) ELSE Adapter)
             ELSE AfterResponse(
                    OnResponse(Adapter, EndpointOf(stage), NullOutput, n), cont))
    /\ phase' = "done" /\ outcome' = tag
    /\ UNCHANGED <<variant, kind, nMw, stage, ran, closeEmitted, produced, hOut>>

MwFails(n) ==
    /\ phase = "stage" /\ stage < nMw
    /\ StageFails(n, "mwfail")

HandlerFails(n) ==
    /\ phase = "stage" /\ stage = nMw
    /\ StageFails(n, "fail")

HttpSucceeds(h, b) ==
    /\ phase = "stage" /\ stage = nMw /\ kind = "http"
    /\ \E d \in Deliveries :
         Put(IF IsCtx
             THEN (IF d
                   THEN EndWithData(HttpSetResHeaders(Adapter, h),
                                    ExecContentType(h), b)
                   ELSE Adapter)
             ELSE Finish(OnResponse(Adapter, "http", ObjectOutput(h, b),
                                    NoError)))
    /\ phase' = "done" /\ outcome' = "ok" /\ hOut' = ObjectOutput(h, b)
    /\ UNCHANGED <<variant, kind, nMw, stage, ran, closeEmitted, produced>>

SseItem(x) ==
    /\ phase = "stage" /\ stage = nMw /\ kind = "sse"
    /\ Len(produced) < MaxItems
    /\ \E d \in Deliveries :
         Put(IF IsCtx
             THEN (IF d THEN SseSend(Adapter, JSONstringify(x)) ELSE Adapter)
             ELSE OnResponse(Adapter, "sse", StringOutput(x),
                             NoError))
    /\ produced' = Append(produced, x)
    /\ UNCHANGED <<variant, kind, nMw, phase, stage, ran, closeEmitted, outcome, hOut>>

SseEnds ==
    /\ phase = "stage" /\ stage = nMw /\ kind = "sse"
    /\ \E d \in Deliveries :
         Put(IF IsCtx
             THEN (IF d THEN SseEndedWithSuccess(Adapter) ELSE Adapter)
             ELSE Finish(Adapter))
    /\ phase' = "done" /\ outcome' = "ok"
    /\ UNCHANGED <<variant, kind, nMw, stage, ran, closeEmitted, produced, hOut>>

\* The transport emits 'close'; the listener, if registered, runs.
Close ==
    /\ phase # "idle" /\ ~closeEmitted
    /\ closeEmitted' = TRUE
    /\ Put(IF ~listening THEN Adapter
           ELSE IF IsCtx THEN ExecutorCancel(Adapter)
           ELSE [Adapter EXCEPT !.closed = TRUE])
    /\ UNCHANGED <<variant, kind, nMw, phase, stage, ran, produced, outcome, hOut>>

\* A step of the request leaves the translator, the router and the
\* context's later life alone.
OnlyRequest == UNCHANGED <<tvars, svars, lvars, hvars, pvars>>

Next ==
    \/ \E k \in Kinds, n \in 0..MaxMw : CtxRequest(k, n) /\ OnlyRequest
    \/ \E v \in Variants \ {"ctx"}, k \in Kinds, n \in 0..MaxMw :
          LcRequest(v, k, n) /\ OnlyRequest
    \/ LcStart /\ OnlyRequest
    \/ \E h \in MwHeaderSets : MwSucceeds(h) /\ OnlyRequest
    \/ \E n \in Norms : MwFails(n) /\ OnlyRequest
    \/ \E n \in Norms : HandlerFails(n) /\ OnlyRequest
    \/ \E h \in HandlerHeaderSets, b \in Bodies : HttpSucceeds(h, b) /\ OnlyRequest
    \/ \E x \in Items : SseItem(x) /\ OnlyRequest
    \/ SseEnds /\ OnlyRequest
    \/ Close /\ OnlyRequest

\* One request; nothing is translated or registered on the side.
InitSpec == Init /\ NoTranslation /\ NoServe /\ NoLife /\ NoHandler /\ NoPeer

Spec == InitSpec /\ [][Next]_allvars

---------------------------------------------------------------------------
(* The translator and the registration on their own: the inputs are drawn  *)
(* by the initial state and no request is in flight.                       *)

OnlyTranslate == UNCHANGED <<vars, svars, lvars, hvars, pvars>>

TNext ==
    \/ Translate /\ OnlyTranslate
    \/ TranslatePlain /\ OnlyTranslate
    \/ TranslateAgain /\ OnlyTranslate

InitTranslate == Init /\ TInit /\ NoServe /\ NoLife /\ NoHandler /\ NoPeer

SpecTranslate == InitTranslate /\ [][TNext]_allvars

OnlyServe == UNCHANGED <<vars, tvars, lvars, hvars, pvars>>

SNext ==
    \/ Serve /\ OnlyServe
    \/ \E m \in Methods, url \in Urls : Dispatch(m, url) /\ OnlyServe

InitServe == Init /\ NoTranslation /\ SInit /\ NoLife /\ NoHandler /\ NoPeer

SpecServe == InitServe /\ [][SNext]_allvars

\* The error-handling arguments of defaultBuildHandler and of serve.
OnlyHandler == UNCHANGED <<vars, tvars, lvars, pvars>>

HNext ==
    \/ Serve /\ UNCHANGED hvars /\ OnlyHandler
    \/ \E m \in Methods, url \in Urls : HandleByRouter(m, url) /\ OnlyHandler
    \/ \E l \in BOOLEAN, e \in BOOLEAN :
          CallDefaultBuildHandler(l, e) /\ UNCHANGED svars /\ OnlyHandler
    \/ HandleByHandler /\ UNCHANGED svars /\ OnlyHandler

InitHandler == Init /\ NoTranslation /\ HInit /\ NoLife /\ NoHandler /\ NoPeer

SpecHandler == InitHandler /\ [][HNext]_allvars

---------------------------------------------------------------------------
(* Reading the response log *)

At(op) == {i \in 1..Len(res) : res[i].op = op}

\* Calls that end the response.
Terminal == At("json") \cup At("send") \cup At("end")

Writes == SelectSeq(res, LAMBDA e : e.op = "write")

NoDisconnect == ~closeEmitted

\* The header names set on the response, in order, other than the two
\* cross-origin headers.
ExplicitNames ==
    LET hs == SelectSeq(res, LAMBDA e :
                  /\ e.op = "setHeader"
                  /\ e.k \notin {"Access-Control-Allow-Origin",
                                 "Access-Control-Expose-Headers"})
    IN [i \in 1..Len(hs) |-> hs[i].k]

\* The preamble occupies positions i..i+4 of the log.
PreambleAt(i) ==
    /\ i + 4 <= Len(res)
    /\ \A j \in 1..5 : res[i + j - 1] = Preamble[j]

---------------------------------------------------------------------------
(* The context of a request beyond one lifecycle run: the 'finish' event,  *)
(* disposal, and a second handler that runs for the same request.  The     *)
(* variants that dispose are the lifecycle ones.                           *)

LifeVariants == {"lc", "elc", "bh"}
LifeMwHeaderSets == {<<Hdr("X-Trace", "1")>>}
LifeBodies == {Undefined, "hello"}
LifeItems == {"a"}

\* Whether a lifecycle callback that is invoked touches the context: those
\* of createLifeCycle and createExpressLifeCycle read the flag from the
\* context's state; those of buildHandler log unless the closure flag is set.
CallbackUsesContext == variant \in {"lc", "elc"} \/ ~closed

Late(uses) == lateUse' = (lateUse \/ (disposed > 0 /\ uses))

\* The handler is entered for a request without req.context: init of
\* createLifeCycle registers done for 'finish'.
LifeEnter(v, k, n) ==
    /\ LcRequest(v, k, n)
    /\ onFinish' = (IF v = "lc" THEN 1 ELSE 0)
    /\ UNCHANGED <<reused, finishEmitted, disposed, lateUse>>

\* onStatusChange("start") of createExpressLifeCycle and buildHandler
\* registers context.dispose for 'finish'.
LifeStart ==
    /\ LcStart
    /\ onFinish' = onFinish + (IF variant \in {"elc", "bh"} /\ ~closed
                               THEN 1 ELSE 0)
    /\ Late(CallbackUsesContext)
    /\ UNCHANGED <<reused, finishEmitted, disposed>>

\* A stage step: the callbacks it invokes may touch the context.
LifeStage ==
    /\ Late(CallbackUsesContext)
    /\ UNCHANGED <<reused, finishEmitted, onFinish, disposed>>

\* The 'close' listener writes the flag and logs through the context.
LifeClose ==
    /\ Close
    /\ Late(listening)
    /\ UNCHANGED <<reused, finishEmitted, onFinish, disposed>>

\* The response emits 'finish' once it was ended and handed to the
\* transport; every listener registered for it runs.
FinishEvent ==
    /\ phase # "idle" /\ ~finishEmitted /\ ~closeEmitted
    /\ Terminal # {}
    /\ finishEmitted' = TRUE
    /\ disposed' = disposed + onFinish
    /\ UNCHANGED <<vars, reused, onFinish, lateUse>>

\* A second handler of defaultBuildHandler runs for the request after the
\* first run: req.context is set, so the context is reused, no done is
\* passed, and init runs again.
Reenter ==
    /\ phase = "done" /\ variant = "lc" /\ listening /\ ~reused
    /\ Put(LcInit(Adapter))
    /\ phase' = "init"
    /\ reused' = TRUE
    /\ Late(TRUE)
    /\ UNCHANGED <<variant, kind, nMw, stage, ran, closeEmitted, produced,
                   outcome, hOut, finishEmitted, onFinish, disposed>>

OnlyLife == UNCHANGED <<tvars, svars, hvars, pvars>>

LifeNext ==
    \/ \E v \in LifeVariants, k \in Kinds, n \in 0..1 :
          LifeEnter(v, k, n) /\ OnlyLife
    \/ LifeStart /\ OnlyLife
    \/ \E h \in LifeMwHeaderSets : MwSucceeds(h) /\ LifeStage /\ OnlyLife
    \/ \E n \in Norms : MwFails(n) /\ LifeStage /\ OnlyLife
    \/ \E n \in Norms : HandlerFails(n) /\ LifeStage /\ OnlyLife
    \/ \E b \in LifeBodies : HttpSucceeds(<<>>, b) /\ LifeStage /\ OnlyLife
    \/ \E x \in LifeItems : SseItem(x) /\ LifeStage /\ OnlyLife
    \/ SseEnds /\ LifeStage /\ OnlyLife
    \/ LifeClose /\ OnlyLife
    \/ FinishEvent /\ OnlyLife
    \/ Reenter /\ OnlyLife

SpecLife == InitSpec /\ [][LifeNext]_allvars

---------------------------------------------------------------------------
(* Two requests in flight.  The callbacks of a request run to completion   *)
(* and the two requests interleave at their suspension points: the         *)
(* variables of the request hold the state of the one that is running,     *)
(* `other` the state of the one that is suspended.                         *)

Requests == {1, 2}

\* Mutant: every request keeps its flag in the context of request 1.
ContextShared(r) == 1

\* The context (for buildHandler: the closure) that holds the flag of a
\* request: each run of a request handler makes its own.
ContextOf(r) == r

\* The state of the running request.
Snapshot ==
    [variant |-> variant, kind |-> kind, nMw |-> nMw, phase |-> phase,
     stage |-> stage, ran |-> ran, closeEmitted |-> closeEmitted,
     res |-> res, closed |-> closed, listening |-> listening,
     exposed |-> exposed, threw |-> threw, errs |-> errs,
     produced |-> produced, outcome |-> outcome, hOut |-> hOut]

\* A request that has not arrived yet.
NotArrived ==
    [variant |-> "ctx", kind |-> "http", nMw |-> 0, phase |-> "idle",
     stage |-> 0, ran |-> <<>>, closeEmitted |-> FALSE,
     res |-> <<>>, closed |-> FALSE, listening |-> FALSE,
     exposed |-> <<>>, threw |-> FALSE, errs |-> <<>>,
     produced |-> <<>>, outcome |-> "none",
     hOut |-> ObjectOutput(<<>>, Undefined)]

PInit == cur = 1 /\ other = NotArrived

\* The running request is suspended (or has nothing more to do) and the
\* callbacks of the other request run next.  A request finds the flag of
\* its own context.
Yield ==
    /\ cur' = 3 - cur
    /\ other' = Snapshot
    /\ variant' = other.variant /\ kind' = other.kind /\ nMw' = other.nMw
    /\ phase' = other.phase /\ stage' = other.stage /\ ran' = other.ran
    /\ closeEmitted' = other.closeEmitted
    /\ res' = other.res
    /\ closed' = (IF ContextOf(3 - cur) = ContextOf(cur) THEN closed
                  ELSE other.closed)
    /\ listening' = other.listening /\ exposed' = other.exposed
    /\ threw' = other.threw /\ errs' = other.errs
    /\ produced' = other.produced /\ outcome' = other.outcome
    /\ hOut' = other.hOut

PairNorms == {n \in Norms : n.status # 503}

PairNext ==
    \/ \E k \in Kinds : CtxRequest(k, 0) /\ OnlyRequest
    \/ \E v \in Variants \ {"ctx"}, k \in Kinds :
          LcRequest(v, k, 0) /\ OnlyRequest
    \/ LcStart /\ OnlyRequest
    \/ \E n \in PairNorms : HandlerFails(n) /\ OnlyRequest
    \/ HttpSucceeds(<<>>, "hello") /\ OnlyRequest
    \/ SseItem("a") /\ OnlyRequest
    \/ SseEnds /\ OnlyRequest
    \/ Close /\ OnlyRequest
    \/ Yield /\ UNCHANGED <<tvars, svars, lvars, hvars>>

InitPair == Init /\ NoTranslation /\ NoServe /\ NoLife /\ NoHandler /\ PInit

SpecPair == InitPair /\ [][PairNext]_allvars

---------------------------------------------------------------------------
(* Claims *)

\* C1: once the cancellation flag is true for a request, no later call
\* writes to its response (no setHeader, flushHeaders, status, json, send,
\* write or end), whichever callback or context operation is invoked.
C1_NoWriteAfterClose == [][closed => res' = res]_vars

\* C2: a stream whose handler produced items x1..xn and ended normally,
\* with no disconnect, got exactly the frames "data: " + JSON(xi) + "\n\n"
\* in production order, each after the flushed preamble; the response was
\* then ended exactly once, and the end is the last call.
C2_StreamFrames ==
    (kind = "sse" /\ NoDisconnect /\ outcome \in {"none", "ok"}) =>
        /\ Writes = [i \in 1..Len(produced) |->
                        Write("data: \"" \o produced[i] \o "\"\n\n")]
        /\ \A i \in At("write") :
              \E j \in 1..Len(res) : j + 4 < i /\ PreambleAt(j)
        /\ (phase = "done" =>
              /\ Cardinality(At("end")) = 1
              /\ res[Len(res)] = End)
        /\ (phase # "done" => At("end") = {})

C2_Witness ==
    /\ phase = "done" /\ kind = "sse" /\ outcome = "ok" /\ NoDisconnect
    /\ produced = <<"b", "a">>
    /\ Len(Writes) = 2

\* C3: a stream whose producer raised after k items, with no disconnect
\* and a normalizer that returned, got the k item frames, then exactly one
\* more frame, and was then ended.
C3_StreamErrorFrame ==
    (/\ phase = "done" /\ kind = "sse" /\ outcome = "fail" /\ NoDisconnect
     /\ Len(errs) = 1 /\ ~errs[1].raised) =>
        /\ Len(Writes) = Len(produced) + 1
        /\ \A i \in 1..Len(produced) :
              Writes[i] = Write("data: \"" \o produced[i] \o "\"\n\n")
        /\ Cardinality(At("end")) = 1
        /\ res[Len(res)] = End

\* C4: a single-response request that is not cancelled issued exactly one
\* call that ends the response (json, send or end), and nothing after it.
C4_OneTerminalWrite ==
    (phase = "done" /\ kind = "http" /\ NoDisconnect) =>
        /\ Cardinality(Terminal) = 1
        /\ Len(res) \in Terminal

\* C5: a single-response handler that succeeded with an absent body, with
\* no disconnect, left the response terminated with status 200.
C5_EmptySuccess ==
    (/\ phase = "done" /\ kind = "http" /\ outcome = "ok" /\ NoDisconnect
     /\ ~BodyPresent(hOut.body)) =>
        /\ \E i \in At("status") : res[i] = Status(200)
        /\ Terminal # {}

C7_CorsHeaders ==
    (/\ phase = "done" /\ kind = "http" /\ outcome = "ok" /\ NoDisconnect
     /\ BodyPresent(hOut.body)) =>
        \E t \in At("json") \cup At("send") :
            /\ \E i \in 1..(t - 1) :
                  res[i] = SetHeader("Access-Control-Allow-Origin", "*")
            /\ (Len(ExplicitNames) > 0) <=>
                  (\E i \in 1..(t - 1) :
                      res[i].k = "Access-Control-Expose-Headers")
            /\ \A i \in 1..Len(res) :
                  res[i].k = "Access-Control-Expose-Headers" =>
                      res[i].v = Join(ExplicitNames)

\* C8: when the user's onError raised while a failure was normalized, no
\* exception left the adapter; a single-response request got status 500
\* with the generic body, and a stream that was opened got ended.
C8_NormalizerFailure ==
    (/\ phase = "done" /\ outcome \in {"mwfail", "fail"} /\ NoDisconnect
     /\ Len(errs) > 0 /\ errs[Len(errs)].raised) =>
        /\ ~threw
        /\ kind = "http" =>
              /\ Len(res) >= 2
              /\ res[Len(res) - 1] = Status(500)
              /\ res[Len(res)] = Json("Unknown Server Error!")
        /\ (kind = "sse" /\ At("flushHeaders") # {}) => At("end") # {}

\* C9: after a middleware of a single-response endpoint failed, with no
\* disconnect, no later stage was started and exactly one response was
\* written: a status and a JSON body, which are the normalizer's, with the
\* normalizer's headers set before; no status 200 and no verbatim body.
C9_MiddlewareFailure ==
    (phase = "done" /\ kind = "http" /\ outcome = "mwfail" /\ NoDisconnect) =>
        /\ stage < nMw
        /\ \A i \in 1..Len(ran) : ran[i] <= stage
        /\ Cardinality(At("json")) = 1
        /\ At("send") = {}
        /\ \A i \in At("status") : res[i] # Status(200)
        /\ Len(res) >= 2
        /\ res[Len(res)].op = "json"
        /\ res[Len(res) - 1].op = "status"
        /\ Len(errs) = 1
        /\ ~errs[1].raised =>
              /\ res[Len(res)] = Json(errs[1].body)
              /\ res[Len(res) - 1] = Status(errs[1].status)
              /\ \A i \in 1..Len(errs[1].headers) :
                    \E j \in 1..Len(res) :
                        res[j] = SetHeader(errs[1].headers[i].k,
                                           errs[1].headers[i].v)

\* C10 as stated: every stream request sets and flushes the preamble
\* exactly once.
C10_PreambleExactlyOnce ==
    (phase = "done" /\ kind = "sse") => Cardinality(At("flushHeaders")) = 1

\* C10, amended: for a stream endpoint the four preamble headers are set
\* and flushed at most once per request, and every frame is written after
\* them; they are set and flushed exactly once as soon as the handler stage
\* is entered before any disconnect, also while no item has been produced
\* (with the context classes: as soon as the context is constructed).
C10_Preamble ==
    (kind = "sse" /\ phase # "idle") =>
        /\ Cardinality(At("flushHeaders")) <= 1
        /\ \A i \in At("flushHeaders") : i > 4 /\ PreambleAt(i - 4)
        /\ \A i \in At("write") : \E j \in At("flushHeaders") : j < i
        /\ (phase \in {"stage", "done"} /\ stage = nMw /\ NoDisconnect) =>
              Cardinality(At("flushHeaders")) = 1
        /\ IsCtx => Cardinality(At("flushHeaders")) = 1

C10_Witness ==
    /\ kind = "sse" /\ variant = "lc" /\ nMw = 1
    /\ phase = "stage" /\ stage = nMw /\ NoDisconnect
    /\ produced = <<>>
    /\ Cardinality(At("flushHeaders")) = 1

---------------------------------------------------------------------------
(* Claims about serve *)

Served == serveState # "none"
Returned == serveState = "returned"

\* C11: serve rejects a bundle that holds a build which is neither a
\* single-response nor a stream build: it throws instead of returning a
\* router, and no request is dispatched; for every variant of serve.
C11_UnknownKindRejected ==
    (Served /\ \E b \in 1..Len(bundle) : bundle[b].kind = "other") =>
        /\ serveState = "threw"
        /\ started.route = 0

RoutesBoundTo(b) == {i \in 1..Len(router) : router[i].build = b}

\* The pattern a route of the b-th build gets for template p.
ExpectedPattern(b, p) ==
    IF p = Root THEN <<"/">>
    ELSE IF serveVariant = "ctx" /\ bundle[b].reqPath.object
         THEN <<"/", ":", "x", "(", "\\", "d", "+", ")">>
         ELSE <<"/", ":", "x">>

EntryPoint(b) ==
    IF serveVariant # "ctx" THEN "buildHandler"
    ELSE IF bundle[b].kind = "http" THEN "executeHttpRoute"
    ELSE "executeSseRoute"

\* Every build has exactly one route per (path, method) pair, under the
\* translated pattern, bound to the build's own entry point.
PairsRegisteredOnce ==
    \A b \in 1..Len(bundle) :
        /\ Cardinality(RoutesBoundTo(b)) =
              Len(bundle[b].path) * Len(bundle[b].method)
        /\ \A pi \in 1..Len(bundle[b].path), mi \in 1..Len(bundle[b].method) :
              Cardinality({i \in RoutesBoundTo(b) :
                             /\ router[i].method = bundle[b].method[mi]
                             /\ router[i].pattern =
                                    ExpectedPattern(b, bundle[b].path[pi])}) = 1
        /\ \A i \in RoutesBoundTo(b) : router[i].entry = EntryPoint(b)

InDocsOrder ==
    \A i, j \in 1..Len(router) :
        i < j => bundle[router[i].build].docsOrder
                    <= bundle[router[j].build].docsOrder

InBundleOrder ==
    \A i, j \in 1..Len(router) : i < j => router[i].build <= router[j].build

\* Builds of equal docsOrder keep their bundle order.
TiesInBundleOrder ==
    \A i, j \in 1..Len(router) :
        (i < j /\ bundle[router[i].build].docsOrder
                    = bundle[router[j].build].docsOrder)
            => router[i].build <= router[j].build

\* C12 as stated: when serve returns, every build has exactly one route
\* per (path, method) pair under the translated pattern, bound to its own
\* entry point; the builds are registered in ascending docsOrder; a request
\* that is accepted starts the lifecycle of a build that registered a route
\* accepting it.
C12_RegisteredInDocsOrder ==
    Returned =>
        /\ PairsRegisteredOnce
        /\ InDocsOrder
        /\ started.route # 0 =>
              /\ router[started.route].method = started.method
              /\ Matches(router[started.route].pattern, started.url)

\* C12, amended: when serve returns, every build has exactly one route per
\* (path, method) pair under the translated pattern, bound to its own entry
\* point; the context-class serve registers the builds in ascending
\* docsOrder, builds of equal docsOrder in bundle order, and the other
\* serves register them in bundle order; a request enters the first
\* registered route that accepts it, and none when no route does.
C12_Registration ==
    Returned =>
        /\ PairsRegisteredOnce
        /\ IF serveVariant = "ctx" THEN InDocsOrder /\ TiesInBundleOrder
           ELSE InBundleOrder
        /\ started.method # "" =>
              /\ started.route = 0 => Accepting(started.method, started.url) = {}
              /\ started.route # 0 =>
                    /\ started.route \in Accepting(started.method, started.url)
                    /\ \A j \in Accepting(started.method, started.url) :
                          started.route <= j

C12_Witness ==
    /\ Returned /\ serveVariant = "ctx" /\ Len(bundle) = 2
    /\ bundle[1].docsOrder > bundle[2].docsOrder
    /\ bundle[1].kind = "http" /\ bundle[2].kind = "sse"
    /\ Len(router) = 5
    /\ router[1].build = 2
    /\ started.route # 0 /\ router[started.route].build = 1

---------------------------------------------------------------------------
(* Claims about pathParser *)

Translated == parser # "none"
TranslatedTwice == parser \in {"schema-twice", "plain-twice"}

\* The template holds a placeholder: "{", a name of one or more characters
\* other than "}", then "}".
HasPlaceholder(p) ==
    \E i, j \in 1..Len(p) :
        /\ p[i] = "{" /\ p[j] = "}" /\ j > i + 1
        /\ \A k \in (i + 1)..(j - 1) : p[k] # "}"

Lit(c) == [ph |-> FALSE, s |-> <<c>>]
Ph(x) == [ph |-> TRUE, s |-> x]
Tokens == {Lit("/"), Ph(<<"x">>), Ph(<<"y">>)}
TokenSeqs == UNION {[1..n -> Tokens] : n \in 0..MaxFrags}

Render(ts) ==
    Flatten([i \in 1..Len(ts) |->
                IF ts[i].ph THEN <<"{">> \o ts[i].s \o <<"}">> ELSE ts[i].s])

WellFormed == \E ts \in TokenSeqs : Render(ts) = path
Parsed == CHOOSE ts \in TokenSeqs : Render(ts) = path

\* The declared type of a parameter.
Declared(x) == ShapeAt(schema, x)

\* The literal members of an enumeration.
Members(ty) == {ty.enum[i].v : i \in 1..Len(ty.enum)}

Orderings(S) ==
    {p \in [1..Cardinality(S) -> S] :
        \A i, j \in 1..Cardinality(S) : p[i] = p[j] => i = j}

RECURSIVE Concats(_)
Concats(sets) ==
    IF sets = <<>> THEN {<<>>}
    ELSE {a \o b : a \in Head(sets), b \in Concats(Tail(sets))}

Unconstrained(x) == <<":">> \o x
DigitsOnly(x) == <<":">> \o x \o <<"(", "\\", "d", "+", ")">>

\* What C14 allows for a token: an alternation of exactly the members for
\* an enumeration, the bare capture when there is no schema.
C14_Emitted(tok) ==
    IF ~tok.ph THEN {tok.s}
    ELSE IF ~schema.object THEN {Unconstrained(tok.s)}
    ELSE IF Declared(tok.s).t = "ZodEnum"
    THEN {Unconstrained(tok.s) \o <<"(">> \o JoinBar(p) \o <<")">> :
            p \in Orderings(Members(Declared(tok.s)))}
    ELSE {Unconstrained(tok.s), DigitsOnly(tok.s)}

\* C14: a placeholder whose declared type is an enumeration becomes
\* ":x(" + members joined by "|" + ")", listing exactly the literal members
\* of the enumeration; without a schema every placeholder becomes ":x";
\* the text outside placeholders is copied, and the order is kept.
C14_EnumAlternation ==
    (Translated /\ WellFormed) =>
        pattern \in Concats([i \in 1..Len(Parsed) |-> C14_Emitted(Parsed[i])])

C15_Emitted(tok) ==
    IF ~tok.ph THEN tok.s
    ELSE IF Declared(tok.s).t = "ZodNumber" /\ Declared(tok.s).int
    THEN DigitsOnly(tok.s)
    ELSE Unconstrained(tok.s)

\* C15: a placeholder becomes ":x(\d+)" exactly when its declared type is
\* integer; a placeholder of any other type that is no enumeration (a
\* string, a number that is no integer, a name the schema does not hold)
\* becomes ":x".
C15_DigitsIffInteger ==
    (/\ Translated /\ WellFormed
     /\ \A i \in 1..Len(Parsed) :
           Parsed[i].ph => Declared(Parsed[i].s).t # "ZodEnum") =>
        pattern = Flatten([i \in 1..Len(Parsed) |-> C15_Emitted(Parsed[i])])

---------------------------------------------------------------------------
(* Claims about disconnects and the life of the context *)

\* C16: a 'close' emitted at any moment after the handler was entered,
\* also before onStatusChange("start") ran, makes the flag true.
C16_DisconnectNeverMissed == closeEmitted => closed

\* C17: within a request the flag is never written back from true to
\* false, also when a second handler runs with the context reused.
C17_FlagMonotone == [][closed => closed']_vars

\* C18: the context is disposed exactly once, at the first of 'finish' and
\* 'close': once either was emitted it has been disposed, and never twice.
C18_DisposedOnce ==
    /\ disposed <= 1
    /\ (finishEmitted \/ closeEmitted) => disposed = 1

\* C19: once the context was disposed on 'finish', no callback of the
\* request uses it any more, up to and including the later 'close'.
C19_NoUseAfterDispose == ~lateUse

---------------------------------------------------------------------------
(* Claims about what a cancelled request still does *)

\* The calls a step appends to the response log.
Appended == SubSeq(res', Len(res) + 1, Len(res'))

\* C21: when the cancellation flag is true and a stage outcome, success or
\* failure, is delivered, the request ends silently: onError is not
\* invoked, nothing is written to the response, and no exception leaves
\* the adapter.
C21_SilentWhenCancelled ==
    [][closed => (errs' = errs /\ threw' = threw /\ Appended = <<>>)]_vars

\* C22: once cancellation is observed on a stream endpoint, before the
\* first item, between items or after the producer finished, the adapter
\* neither ends the response nor writes another frame.
C22_NoEndAfterCancel ==
    [][(closed /\ kind = "sse") =>
          \A i \in 1..Len(Appended) : Appended[i].op \notin {"end", "write"}]_vars

---------------------------------------------------------------------------
(* Claims about the headers accumulated over the stages *)

\* Positions of the log where a content-type header naming a media type
\* other than JSON is set.
NonJsonContentTypeSet ==
    {i \in At("setHeader") :
        /\ ToLowerCase(res[i].k) = "content-type"
        /\ ToLowerCase(res[i].v) # "application/json"}

\* C24: the representation of a single-response success is decided from
\* the headers accumulated over all stages: when a middleware set a
\* content-type header naming a non-JSON media type and the handler's own
\* headers hold no content-type, the body is sent verbatim, not serialized.
C24_AccumulatedContentType ==
    (/\ phase = "done" /\ kind = "http" /\ outcome = "ok" /\ NoDisconnect
     /\ BodyPresent(hOut.body)
     /\ FindContentTypeKey(hOut.headers, 1) = ""
     /\ NonJsonContentTypeSet # {}) =>
        /\ At("json") = {}
        /\ \E t \in At("send") : res[t] = Send(hOut.body)

\* The header names set explicitly before position i of the log.
NamesSetBefore(i) ==
    {res[j].k : j \in {j \in At("setHeader") :
                          /\ j < i
                          /\ res[j].k \notin {"Access-Control-Allow-Origin",
                                              "Access-Control-Expose-Headers"}}}

\* C25: the value of Access-Control-Expose-Headers lists every header name
\* that was set explicitly during the request exactly once, also when a
\* name was set by several stages or several setResHeaders calls.
C25_ExposedOnce ==
    \A i \in At("setHeader") :
        res[i].k = "Access-Control-Expose-Headers" =>
            res[i].v \in {Join(p) : p \in Orderings(NamesSetBefore(i))}

---------------------------------------------------------------------------
(* Claims about the error callbacks handed to serve *)

HasKind(k) == \E b \in 1..Len(bundle) : bundle[b].kind = k

\* C27: the context-class serve throws when the bundle holds a
\* single-response build and onHttpError is missing, or a stream build and
\* onSseError is missing; a kind that no build has does not need its
\* callback; every registered route is bound to the error callback of the
\* kind of its build, which was given.
C27_CallbackPerKind ==
    (Served /\ serveVariant = "ctx") =>
        /\ (HasKind("http") /\ ~args.onHttpError) => serveState = "threw"
        /\ (HasKind("sse") /\ ~args.onSseError) => serveState = "threw"
        /\ (/\ ~HasKind("other")
            /\ HasKind("http") => args.onHttpError
            /\ HasKind("sse") => args.onSseError) => Returned
        /\ \A i \in 1..Len(router) :
              LET k == bundle[router[i].build].kind IN
              /\ k = "http" => /\ BoundCallback(router[i].entry) = "onHttpError"
                               /\ args.onHttpError
              /\ k = "sse" => /\ BoundCallback(router[i].entry) = "onSseError"
                              /\ args.onSseError

C27_Witness ==
    /\ Returned /\ serveVariant = "ctx"
    /\ ~args.onHttpError /\ args.onSseError
    /\ Len(bundle) = 2 /\ ~HasKind("http") /\ ~HasKind("other")
    /\ Len(router) >= 2
    /\ started.route # 0

ExactlyOne(x, y) == (x /\ ~y) \/ (~x /\ y)

\* C26: the error-handling arguments are validated before a route is
\* registered or a request handled.  defaultBuildHandler throws when lc
\* and onError are both given and when neither is; serve throws in the same
\* two cases of buildHandler and onError, with no route registered and no
\* request dispatched; with exactly one given both return, and a request
\* runs the lifecycle derived from the argument that was given.
C26_ConfigValidated ==
    /\ handler.state # "none" =>
          /\ (handlerArgs.lc /\ handlerArgs.onError) => handler.state = "threw"
          /\ (~handlerArgs.lc /\ ~handlerArgs.onError) => handler.state = "threw"
          /\ ExactlyOne(handlerArgs.lc, handlerArgs.onError) =>
                /\ handler.state = "returned"
                /\ handler.lc = (IF handlerArgs.onError
                                 THEN "createLifeCycle(onError)" ELSE "lc")
    /\ Served =>
          /\ (args.buildHandler /\ args.onError) => serveState = "threw"
          /\ (~args.buildHandler /\ ~args.onError) => serveState = "threw"
          /\ ExactlyOne(args.buildHandler, args.onError) => Returned
          /\ serveState = "threw" => router = <<>> /\ started = NoRequest
    /\ executed.by = "handler" =>
          /\ ExactlyOne(handlerArgs.lc, handlerArgs.onError)
          /\ executed.lc = (IF handlerArgs.onError
                            THEN "createLifeCycle(onError)" ELSE "lc")
    /\ executed.by = "router" =>
          /\ ExactlyOne(args.buildHandler, args.onError)
          /\ executed.lc = (IF args.onError THEN "lc = createLifeCycle(onError)"
                            ELSE "buildHandler(build)")

C26_Witness ==
    /\ handler.state = "threw" /\ handlerArgs.lc /\ handlerArgs.onError
    /\ Returned /\ args.onError /\ ~args.buildHandler
    /\ Len(router) = 4
    /\ executed.by = "router"

---------------------------------------------------------------------------
(* Claims about requests in flight together *)

\* The state of request r, running or suspended.
View(r) == IF cur = r THEN Snapshot ELSE other

\* C23: two requests in flight are isolated under every interleaving of
\* their callbacks: the flag of a request is true only if its own response
\* emitted 'close', and no step of one request, its disconnect included,
\* changes the flag, the response or any other state of the other request.
C23_Isolated ==
    /\ [](\A r \in Requests : View(r).closed => View(r).closeEmitted)
    /\ [][\A r \in Requests :
            (cur' # cur \/ r # cur) => View(r)' = View(r)]_allvars

C23_Witness ==
    /\ View(1).closeEmitted /\ View(1).closed
    /\ View(1).variant = "lc" /\ View(1).phase = "stage"
    /\ View(2).variant = "lc" /\ View(2).phase = "done"
    /\ ~View(2).closeEmitted /\ ~View(2).closed
    /\ View(2).res = <<Status(200), Json("hello")>>

=============================================================================
